---- MODULE Spec2Model ----
(***************************************************************************)
(* Tiered decision / escalation engines of hybrid-ai-agents:               *)
(*   StudioDecisionEngine.processScenario  (tool -> edge -> cloud ladder)   *)
(*   DemoDecisionEngine.routeIncident      (npu -> cloud routing)           *)
(* Confidences are in hundredths (0.70 = 70).  Prices are in cents per     *)
(* million tokens and costs in units of 1e-8 USD (tokens * cents / MTok),  *)
(* so the arithmetic of calculateCost stays in the integers.               *)
(* The code runs synchronously between two awaits: the clock `now` only    *)
(* advances while a backend call is awaited and is assumed not to go back. *)
(***************************************************************************)
EXTENDS Integers, Sequences, FiniteSets, TLC

VARIABLES
    pc,          \* position of processScenario (StudioDecisionEngine)
    scenario,    \* the StudioScenario given to processScenario
    settings,    \* settingsStore.getAll()
    now,         \* Date.now()
    startTime,   \* this.startTime
    tierStart,   \* tierStart of the tier being executed
    timeline,    \* this.timeline
    published,   \* events handed to the 'activity' subscribers, in order
    sessionId,   \* this.sessionId
    nextId,      \* source of fresh identifiers (crypto.randomUUID)
    result,      \* the StudioResult under construction
    pending,     \* value (or exception) a backend call delivered
    err,         \* message of the exception being handled
    caught,      \* the catch block of processScenario has been entered
    metrics,     \* rows of studio_metrics (DemoDB.createMetric)
    entered,     \* history: tiers entered by this call, in order
    calls,       \* history: backend operations invoked by this call, with their requests
    subFaults,   \* number of exceptions thrown by activity subscribers
    sinkFaults,  \* number of exceptions thrown by the metrics sink
    dpc,         \* position of routeIncident (DemoDecisionEngine)
    demo,        \* state of the DemoDecisionEngine call and of its database rows
    body,        \* body of the request to POST /api/demo/studio/process
    status,      \* status of the response when the route answers with an error (0: none)
    other,       \* a second request served while this one awaits a backend
    abandoned,   \* what there was when the caller gave up the request (Null: it has not)
    costSummary  \* the SessionCostSummary calculateSessionSummary is building

vars == <<pc, scenario, settings, now, startTime, tierStart, timeline, published,
          sessionId, nextId, result, pending, err, caught, metrics, entered, calls,
          subFaults, sinkFaults, dpc, demo, body, status, other, abandoned, costSummary>>

studioVars == <<pc, scenario, settings, now, startTime, tierStart, timeline, published,
                sessionId, nextId, result, pending, err, caught, metrics, entered, calls,
                subFaults, sinkFaults, body, status, other, abandoned, costSummary>>

(***************************************************************************)
(* Bounds of the model                                                     *)
(***************************************************************************)
MaxTick == 1
MaxSubFaults == 1
MaxSinkFaults == 1

(***************************************************************************)
(* Program constants                                                       *)
(***************************************************************************)
CONFIDENCE_THRESHOLD == 70
DemoThreshold == 70
CloudClientThreshold == 70
MCP_CONFIDENCE == 90
CharsPerToken == 4

Null == [kind |-> "null"]
NoTool == ""

(***************************************************************************)
(* pricing.ts                                                              *)
(***************************************************************************)
\* model identifiers are sequences of characters
Name_gpt4o == <<"g","p","t","-","4","o">>
Name_gpt4o_mini == Name_gpt4o \o <<"-","m","i","n","i">>
Name_gpt4 == <<"g","p","t","-","4">>
Name_gpt4_turbo == Name_gpt4 \o <<"-","t","u","r","b","o">>
Name_gpt35_turbo == <<"g","p","t","-","3",".","5","-","t","u","r","b","o">>
Name_o1 == <<"o","1">>
Name_o1_mini == Name_o1 \o <<"-","m","i","n","i">>
Name_azure == <<"-","a","z","u","r","e">>
Name_claude3 == <<"c","l","a","u","d","e","-","3">>
Name_sonnet == <<"-","s","o","n","n","e","t">>
Name_phi == <<"p","h","i">>
Name_phi35_mini == Name_phi \o <<"-","3",".","5","-","m","i","n","i">>
Name_phi3_mini == Name_phi \o <<"-","3","-","m","i","n","i">>
Name_llama == <<"l","l","a","m","a">>
Name_mistral == <<"m","i","s","t","r","a","l">>
Name_default == <<"d","e","f","a","u","l","t">>

Price(k, i, o) == [key |-> k, input |-> i, output |-> o]

\* MODEL_PRICING in insertion order (the order Object.entries yields)
MODEL_PRICING ==
    << Price(Name_gpt4o, 250, 1000),
       Price(Name_gpt4o_mini, 15, 60),
       Price(Name_gpt4_turbo, 1000, 3000),
       Price(Name_gpt4, 3000, 6000),
       Price(Name_gpt35_turbo, 50, 150),
       Price(Name_o1, 1500, 6000),
       Price(Name_o1_mini, 300, 1200),
       Price(Name_gpt4o \o Name_azure, 250, 1000),
       Price(Name_gpt4o_mini \o Name_azure, 15, 60),
       Price(Name_claude3 \o <<"-","o","p","u","s">>, 1500, 7500),
       Price(Name_claude3 \o Name_sonnet, 300, 1500),
       Price(Name_claude3 \o <<"-","h","a","i","k","u">>, 25, 125),
       Price(Name_claude3 \o <<".","5">> \o Name_sonnet, 300, 1500),
       Price(Name_phi35_mini, 0, 0),
       Price(Name_phi35_mini \o <<"-","i","n","s","t","r","u","c","t">>, 0, 0),
       Price(Name_phi3_mini, 0, 0),
       Price(Name_llama \o <<"-","3",".","2">>, 0, 0),
       Price(Name_mistral \o <<"-","7","b">>, 0, 0),
       Price(Name_default, 250, 1000) >>

localModelPatterns ==
    << Name_phi, Name_llama, Name_mistral, <<"g","e","m","m","a">>,
       <<"q","w","e","n">>, <<"o","n","n","x">> >>

UpperToLower ==
    [c \in {"A","B","C","D","E","F","G","H","I","J","K","L","M","N","O","P","Q","R",
            "S","T","U","V","W","X","Y","Z"} |->
        CASE c = "A" -> "a" [] c = "B" -> "b" [] c = "C" -> "c" [] c = "D" -> "d"
          [] c = "E" -> "e" [] c = "F" -> "f" [] c = "G" -> "g" [] c = "H" -> "h"
          [] c = "I" -> "i" [] c = "J" -> "j" [] c = "K" -> "k" [] c = "L" -> "l"
          [] c = "M" -> "m" [] c = "N" -> "n" [] c = "O" -> "o" [] c = "P" -> "p"
          [] c = "Q" -> "q" [] c = "R" -> "r" [] c = "S" -> "s" [] c = "T" -> "t"
          [] c = "U" -> "u" [] c = "V" -> "v" [] c = "W" -> "w" [] c = "X" -> "x"
          [] c = "Y" -> "y" [] c = "Z" -> "z"]

\* String.prototype.toLowerCase
ToLowerCase(s) ==
    [i \in 1..Len(s) |-> IF s[i] \in DOMAIN UpperToLower THEN UpperToLower[s[i]] ELSE s[i]]

\* String.prototype.startsWith
StartsWith(s, p) == Len(p) <= Len(s) /\ SubSeq(s, 1, Len(p)) = p

\* String.prototype.includes
Includes(s, p) == \E i \in 0..(Len(s) - Len(p)) : SubSeq(s, i + 1, i + Len(p)) = p

PrefixMatches(m) ==
    {i \in 1..Len(MODEL_PRICING) :
        StartsWith(m, MODEL_PRICING[i].key) \/ StartsWith(MODEL_PRICING[i].key, m)}

Min(S) == CHOOSE x \in S : \A y \in S : x <= y

getModelPricing(model) ==
    LET m == ToLowerCase(model)
        exact == {i \in 1..Len(MODEL_PRICING) : MODEL_PRICING[i].key = m}
    IN  IF exact # {}
        THEN LET e == MODEL_PRICING[Min(exact)] IN [input |-> e.input, output |-> e.output]
        ELSE IF PrefixMatches(m) # {}
        THEN LET e == MODEL_PRICING[Min(PrefixMatches(m))]
             IN  [input |-> e.input, output |-> e.output]
        ELSE IF \E i \in 1..Len(localModelPatterns) : Includes(m, localModelPatterns[i])
        THEN [input |-> 0, output |-> 0]
        ELSE LET e == MODEL_PRICING[Len(MODEL_PRICING)]
             IN  [input |-> e.input, output |-> e.output]

\* (usage.input / 1e6) * pricing.input + (usage.output / 1e6) * pricing.output,
\* in units of 1e-8 USD
calculateCost(model, usage) ==
    LET pricing == getModelPricing(model)
    IN  usage.input * pricing.input + usage.output * pricing.output

\* Math.ceil(text.length / 4), 0 for the empty text
estimateTokens(text) ==
    IF text = "" THEN 0 ELSE (Len(text) + CharsPerToken - 1) \div CharsPerToken

isLocalModelByPattern(model) ==
    \E i \in 1..Len(localModelPatterns) : Includes(ToLowerCase(model), localModelPatterns[i])

isLocalModel(model) ==
    LET pricing == getModelPricing(model)
    IN  pricing.input = 0 /\ pricing.output = 0

\* model identifiers handed to the pricing functions
ModelNames ==
    { <<"g","p","t","-","4","o">>,   \* 'gpt-4o'
      <<"g","p","t","-","4","o","-","m","i","n","i">>,   \* 'gpt-4o-mini'
      <<"G","P","T","-","4","o","-","m","i","n","i">>,   \* 'GPT-4o-mini'
      <<"g","p","t","-","4","o","-","m","i","n","i","-","2","0","2","4","-","0","7","-","1","8">>,   \* 'gpt-4o-mini-2024-07-18'
      <<"g","p","t","-","4">>,   \* 'gpt-4'
      <<"g","p","t","-","4","-","t","u","r","b","o","-","p","r","e","v","i","e","w">>,   \* 'gpt-4-turbo-preview'
      <<"o","1","-","m","i","n","i","-","2","0","2","4">>,   \* 'o1-mini-2024'
      <<"p","h","i","-","3",".","5","-","m","i","n","i">>,   \* 'phi-3.5-mini'
      <<"p","h","i","-","3",".","5","-","m","i","n","i","-","i","n","s","t","r","u","c","t","-","o","n","n","x">>,   \* 'phi-3.5-mini-instruct-onnx'
      <<"p","h","i","-","4">>,   \* 'phi-4'
      <<"L","l","a","m","a","-","3",".","2">>,   \* 'Llama-3.2'
      <<"q","w","e","n","2">>,   \* 'qwen2'
      <<"g","p","t","-","4","o","-","o","n","n","x">>,   \* 'gpt-4o-onnx'
      <<"c","l","a","u","d","e","-","3","-","o","p","u","s">>,   \* 'claude-3-opus'
      <<"g","e","m","i","n","i">>,   \* 'gemini'
      <<>>,   \* ''
      <<"g">>,   \* 'g'
      <<"p">> }   \* 'p'

\* TokenUsage values
Usages ==
    {[input |-> 0, output |-> 0], [input |-> 1000, output |-> 500],
     [input |-> 0, output |-> 50000]}

MaxEntries == 2

NoTokens == [input |-> 0, output |-> 0]

EmptySummary ==
    [totalCost |-> 0, cloudCost |-> 0, edgeCost |-> 0, cloudTokens |-> NoTokens,
     edgeTokens |-> NoTokens, byModel |-> <<>>, priced |-> <<>>]

AddTokens(t, usage) ==
    [input |-> t.input + usage.input, output |-> t.output + usage.output]

\* one iteration of the loop of calculateSessionSummary; priced is the history
\* of what the pricing functions returned for the entries
AddEntry(s, entry) ==
    LET cost == calculateCost(entry.model, entry.usage)
        isLocal == isLocalModel(entry.model)
        old == IF entry.model \in DOMAIN s.byModel
               THEN s.byModel[entry.model]
               ELSE [tokens |-> NoTokens, cost |-> 0]
    IN  [totalCost |-> s.totalCost + cost,
         cloudCost |-> IF isLocal THEN s.cloudCost ELSE s.cloudCost + cost,
         edgeCost |-> IF isLocal THEN s.edgeCost + cost ELSE s.edgeCost,
         cloudTokens |-> IF isLocal THEN s.cloudTokens ELSE AddTokens(s.cloudTokens, entry.usage),
         edgeTokens |-> IF isLocal THEN AddTokens(s.edgeTokens, entry.usage) ELSE s.edgeTokens,
         byModel |-> [m \in DOMAIN s.byModel \cup {entry.model} |->
                        IF m = entry.model
                        THEN [tokens |-> AddTokens(old.tokens, entry.usage),
                              cost |-> old.cost + cost]
                        ELSE s.byModel[m]],
         priced |-> Append(s.priced,
                           [model |-> entry.model, usage |-> entry.usage,
                            pricing |-> getModelPricing(entry.model),
                            cost |-> cost, isLocal |-> isLocal])]

(***************************************************************************)
(* Inputs: scenarios, settings and the answers of the three backends       *)
(***************************************************************************)
Tiers == <<"mcp", "edge", "cloud">>

\* a || b on texts
OrElse(a, b) == IF a # "" THEN a ELSE b

\* bodies of requests to the route after request.json(); "" stands for a field
\* that is absent or empty, json = FALSE for a body that is not JSON
ScenarioBodies ==
    {[id |-> "scn-1", summary |-> "Battery drain", description |-> "Laptop battery drains fast",
      priority |-> "", category |-> "windows", mcp_tool |-> "get_power_usage_report"],
     [id |-> "scn-1", summary |-> "Battery drain", description |-> "",
      priority |-> "high", category |-> "", mcp_tool |-> NoTool],
     [id |-> "", summary |-> "Battery drain", description |-> "Laptop battery drains fast",
      priority |-> "", category |-> "", mcp_tool |-> "get_power_usage_report"],
     [id |-> "scn-1", summary |-> "", description |-> "Laptop battery drains fast",
      priority |-> "", category |-> "", mcp_tool |-> NoTool]}

Bodies ==
    {[json |-> TRUE, scenario |-> b] : b \in ScenarioBodies}
        \cup {[json |-> TRUE, scenario |-> Null], [json |-> FALSE, scenario |-> Null]}

\* a validation that forgets the summary
ValidWithId(b) ==
    /\ b.json
    /\ b.scenario # Null
    /\ b.scenario.id # ""

\* the required fields are there (route.ts line 9)
Valid(b) ==
    /\ b.json
    /\ b.scenario # Null
    /\ b.scenario.id # ""
    /\ b.scenario.summary # ""

\* the StudioScenario the route builds, with its defaults (route.ts lines 17-27)
BuildScenario(b) ==
    [id |-> b.scenario.id, summary |-> b.scenario.summary,
     description |-> OrElse(b.scenario.description, b.scenario.summary),
     priority |-> OrElse(b.scenario.priority, "medium"),
     category |-> OrElse(b.scenario.category, "service_desk"),
     mcp_tool |-> b.scenario.mcp_tool]

CloudModels == {Name_gpt4o, Name_phi35_mini, <<"G","P","T","-","4","o","-","m","i","n","i">>}

SettingsValues ==
    {[mcp_server_enabled |-> e, cloud_api_key |-> k, cloud_model |-> m] :
        e \in BOOLEAN, k \in {"", "sk-test"}, m \in CloudModels}

\* bodies the MCP server can answer /tools/call with (MCPToolResult); "" stands for null
ToolAnswers ==
    {[success |-> TRUE, result |-> "{battery_health: 80}", error |-> ""],
     [success |-> TRUE, result |-> "", error |-> ""],
     [success |-> FALSE, result |-> "", error |-> "PowerShell not available"],
     [success |-> FALSE, result |-> "{battery_health: 80}", error |-> "Report incomplete"],
     [success |-> FALSE, result |-> "", error |-> ""]}

\* bodies the NPU agent can answer /resolve with
NpuAnswers ==
    {[confidence |-> c, resolution |-> IF c = 0 THEN "" ELSE "Reset the password",
      reasoning |-> g, should_escalate |-> e,
      escalation_reason |-> IF e /\ g # "" THEN "Needs admin rights" ELSE "",
      tokens_input |-> t, tokens_output |-> t] :
        c \in {0, 69, 70, 85, 120}, g \in {"", "KB match"}, e \in BOOLEAN, t \in {0, 40}}

\* JSON answers of the cloud model, with the usage the API reports (0 = none)
CloudAnswers ==
    {[resolution |-> "Reconfigure the VPN gateway", reasoning |-> "Gateway misconfigured",
      confidence |-> c, requires_specialist |-> r, specialist_notes |-> "",
      usage |-> [prompt_tokens |-> 900, completion_tokens |-> 300]] :
        c \in {55, 70, 90}, r \in BOOLEAN}
    \cup
    {[resolution |-> "", reasoning |-> "", confidence |-> c,
      requires_specialist |-> c = 55, specialist_notes |-> "",
      usage |-> [prompt_tokens |-> 0, completion_tokens |-> 0]] : c \in {55, 90}}

(***************************************************************************)
(* agents: mcp-client.ts, npu-client (part_003), cloud-client.ts           *)
(***************************************************************************)
Returned(v) == [kind |-> "value", value |-> v]
Thrown(m) == [kind |-> "throw", message |-> m, config |-> FALSE]
ThrownConfig(m) == [kind |-> "throw", message |-> m, config |-> TRUE]

\* MCPClient.callTool: never throws; a transport failure or a non-2xx status is
\* answered as {success:false}; a 2xx body is handed on as it is (null included)
callTool ==
    {Returned(a) : a \in ToolAnswers}
        \cup {Returned([success |-> FALSE, result |-> "", error |-> "HTTP 500: boom"]),
              Returned(Null)}

\* ResolutionResultSchema.parse: confidence within [0,1], unknown keys stripped
ResolutionResultSchemaParse(a) ==
    IF a.confidence < 0 \/ a.confidence > 100
    THEN Thrown("Failed to resolve incident with NPU agent: invalid confidence")
    ELSE Returned([confidence |-> a.confidence, resolution |-> a.resolution,
                   reasoning |-> a.reasoning, should_escalate |-> a.should_escalate,
                   escalation_reason |-> a.escalation_reason, tokens_input |-> 0, tokens_output |-> 0])

\* NPUAgentClient.resolveIncident
resolveIncident ==
    {ResolutionResultSchemaParse(a) : a \in NpuAnswers}
        \cup {Thrown("Failed to resolve incident with NPU agent: fetch failed")}

\* NPUAgentClient.healthCheck: the body of /health, or an exception when the
\* request fails or the status is not 2xx
healthCheck ==
    {Returned([status |-> "healthy"]), Returned([status |-> "degraded"]),
     Thrown("NPU agent service unavailable: fetch failed")}

\* resolveEscalation that hands the model's answer on as it is
ValidateCloudResultUnchecked(a) == a

\* GenericCloudAgent.resolveEscalation on a parsed answer: low confidence forces
\* requires_specialist
ValidateCloudResult(a) ==
    IF a.confidence < CloudClientThreshold /\ ~a.requires_specialist
    THEN [a EXCEPT !.requires_specialist = TRUE,
                   !.specialist_notes =
                        IF a.specialist_notes # "" THEN a.specialist_notes
                        ELSE "Confidence below 70% threshold - requires human review"]
    ELSE a

\* GenericCloudAgent.resolveEscalation
resolveEscalation ==
    {Returned(ValidateCloudResult(a)) : a \in CloudAnswers}
        \cup {Thrown("Cloud agent failed: No response from cloud agent")}

(***************************************************************************)
(* StudioDecisionEngine: tier results                                      *)
(***************************************************************************)
TierResult(active, latency, tin, tout, cost, response, confidence, decision, raw) ==
    [active |-> active, latency_ms |-> latency, tokens_input |-> tin,
     tokens_output |-> tout, cost_usd |-> cost, response |-> response,
     confidence |-> confidence, decision |-> decision, raw_data |-> raw]

RawData(reasoning, data) == [reasoning |-> reasoning, data |-> data]

\* a || b on numbers
OrElseNum(a, b) == IF a # 0 THEN a ELSE b

\* formatMCPResult: header, rule, then the formatted entries of the tool's data
formatMCPResult(toolName, data) == "MCP Tool: " \o toolName \o "\n---\n" \o data

\* buildEdgeDescription
buildEdgeDescription(scn, mcpResult) ==
    IF mcpResult # Null /\ mcpResult.raw_data # Null
    THEN scn.description \o "\n\n--- System Data from MCP ---\n" \o mcpResult.raw_data.data
    ELSE scn.description

\* a disabled tool tier reported as one that ran
MCPDisabledResultActive(latency) ==
    TierResult(TRUE, latency, 0, 0, 0, "MCP server disabled", 0, "escalate", Null)

MCPDisabledResult(latency) ==
    TierResult(FALSE, latency, 0, 0, 0, "MCP server disabled", 0, "escalate", Null)

MCPSuccessResult(scn, toolResult, latency) ==
    TierResult(TRUE, latency, 0, 0, 0, formatMCPResult(scn.mcp_tool, toolResult.result),
               MCP_CONFIDENCE, "resolve", RawData("", toolResult.result))

MCPFailedResult(toolResult, latency) ==
    TierResult(TRUE, latency, 0, 0, 0, OrElse(toolResult.error, "MCP tool execution failed"),
               0, "escalate", Null)

MCPErrorResult(e, latency) ==
    TierResult(TRUE, latency, 0, 0, 0, e.message, 0, "escalate", Null)

EdgeUnavailableResult(latency) ==
    TierResult(FALSE, latency, 0, 0, 0, "NPU agent unavailable", 0, "escalate", Null)

\* an edge decision that looks at the confidence alone
EdgeDecisionByConfidence(npuResult) ==
    IF npuResult.confidence < CONFIDENCE_THRESHOLD THEN "escalate" ELSE "resolve"

\* decision of the edge tier result (line 797)
EdgeDecision(npuResult) ==
    IF npuResult.should_escalate \/ npuResult.confidence < CONFIDENCE_THRESHOLD
    THEN "escalate" ELSE "resolve"

EdgeSuccessResult(npuResult, description, latency) ==
    TierResult(TRUE, latency,
               OrElseNum(npuResult.tokens_input, estimateTokens(description)),
               OrElseNum(npuResult.tokens_output, estimateTokens(npuResult.resolution)),
               0, npuResult.resolution, npuResult.confidence, EdgeDecision(npuResult),
               RawData(npuResult.reasoning, ""))

EdgeErrorResult(e, latency) ==
    TierResult(TRUE, latency, 0, 0, 0, e.message, 0, "escalate", Null)

CloudNotConfiguredResult(latency) ==
    TierResult(FALSE, latency, 0, 0, 0,
               "Cloud API not configured. Please configure API key in settings.",
               0, "error", Null)

\* decision of the cloud tier result (line 893)
CloudDecision(cloudResult) ==
    IF cloudResult.requires_specialist THEN "escalate" ELSE "resolve"

CloudSuccessResult(cloudResult, scn, stg, latency) ==
    LET tokensInput == OrElseNum(cloudResult.usage.prompt_tokens,
                                 estimateTokens(scn.description))
        tokensOutput == OrElseNum(cloudResult.usage.completion_tokens,
                                  estimateTokens(cloudResult.resolution))
    IN  TierResult(TRUE, latency, tokensInput, tokensOutput,
                   calculateCost(stg.cloud_model, [input |-> tokensInput, output |-> tokensOutput]),
                   cloudResult.resolution, cloudResult.confidence, CloudDecision(cloudResult),
                   RawData(cloudResult.reasoning, ""))

\* a catch block that treats every exception alike
CloudErrorResultAny(e, latency) ==
    TierResult(TRUE, latency, 0, 0, 0, e.message, 0, "error", Null)

CloudErrorResult(e, latency) ==
    IF e.config
    THEN TierResult(FALSE, latency, 0, 0, 0,
                    "Cloud agent configuration error. Check API settings.", 0, "error", Null)
    ELSE TierResult(TRUE, latency, 0, 0, 0, e.message, 0, "error", Null)

\* npuAttempt of the request given to the cloud agent (lines 863-869)
NpuAttempt(edgeResult) ==
    IF edgeResult # Null
    THEN [resolution |-> edgeResult.response, confidence |-> edgeResult.confidence,
          reasoning |-> OrElse(IF edgeResult.raw_data # Null
                               THEN edgeResult.raw_data.reasoning ELSE "",
                               "Local NPU processing")]
    ELSE Null

(***************************************************************************)
(* StudioDecisionEngine: the result and its finalization                   *)
(***************************************************************************)
NewResult(scn, sid) ==
    [success |-> FALSE, scenario_id |-> scn.id, session_id |-> sid,
     tiers |-> [mcp |-> Null, edge |-> Null, cloud |-> Null],
     timeline |-> <<>>, total_latency_ms |-> 0,
     total_tokens |-> [input |-> 0, output |-> 0], total_cost_usd |-> 0,
     resolution |-> "", final_tier |-> "mcp", ticket_output |-> Null]

\* lines 604-609
MCPResolves(res) == res.tiers.mcp.decision = "resolve"

\* line 615
EdgeAccepted(res) ==
    res.tiers.edge.decision = "resolve" /\ res.tiers.edge.confidence >= CONFIDENCE_THRESHOLD

\* a cloud tier taken as resolving unless it failed
CloudResolvesUnlessError(res) == res.tiers.cloud.decision # "error"

\* line 625
CloudResolves(res) == res.tiers.cloud.decision = "resolve"

Resolved(res, tier) ==
    [res EXCEPT !.success = TRUE, !.resolution = res.tiers[tier].response,
                !.final_tier = tier]

\* an unresolved cloud tier whose empty response is kept
CloudUnresolvedNoFallback(res) ==
    [res EXCEPT !.success = FALSE, !.resolution = res.tiers.cloud.response,
                !.final_tier = "cloud"]

\* lines 629-633
CloudUnresolved(res) ==
    [res EXCEPT !.success = FALSE,
                !.resolution = OrElse(res.tiers.cloud.response,
                                      "Requires human specialist intervention"),
                !.final_tier = "cloud"]

\* the tiers that are not null (line 936), as indices of Tiers
PresentTiers(res) == {i \in 1..Len(Tiers) : res.tiers[Tiers[i]] # Null}

RECURSIVE SumOver(_, _, _)
SumOver(res, S, field) ==
    IF S = {} THEN 0
    ELSE LET i == Min(S)
         IN  res.tiers[Tiers[i]][field] + SumOver(res, S \ {i}, field)

\* getFinalConfidence
getFinalConfidence(res) ==
    LET tier == res.tiers[res.final_tier]
    IN  IF tier = Null THEN 0 ELSE tier.confidence

TierLine(t) == IF t # Null /\ t.active THEN "ran" ELSE "Skipped"

\* generateTicketOutput: the fields the ticket text is rendered from
generateTicketOutput(res, scn) ==
    [status |-> IF res.success THEN "RESOLVED" ELSE "ESCALATED",
     priority |-> scn.priority, resolved_by |-> res.final_tier,
     confidence |-> getFinalConfidence(res), processing_time |-> res.total_latency_ms,
     resolution |-> res.resolution,
     mcp |-> TierLine(res.tiers.mcp), edge |-> TierLine(res.tiers.edge),
     cloud |-> TierLine(res.tiers.cloud),
     total_tokens |-> res.total_tokens.input + res.total_tokens.output,
     total_cost |-> res.total_cost_usd]

\* a total that leaves the last tier out
TotalCostWithoutCloud(res) == SumOver(res, PresentTiers(res) \ {Len(Tiers)}, "cost_usd")

\* total_cost_usd (line 943)
TotalCost(res) == SumOver(res, PresentTiers(res), "cost_usd")

\* finalizeResult up to the attachment of the timeline (lines 936-949)
Totals(res, scn, tl) ==
    LET r1 == [res EXCEPT
                 !.total_latency_ms = SumOver(res, PresentTiers(res), "latency_ms"),
                 !.total_tokens = [input |-> SumOver(res, PresentTiers(res), "tokens_input"),
                                   output |-> SumOver(res, PresentTiers(res), "tokens_output")],
                 !.total_cost_usd = TotalCost(res)]
        r2 == [r1 EXCEPT !.ticket_output = generateTicketOutput(r1, scn)]
    IN  [r2 EXCEPT !.timeline = tl]

\* rows for every tier that has an outcome, skipped or not
RecordedTiersPresent(res) == SelectSeq(Tiers, LAMBDA k : res.tiers[k] # Null)

\* the tiers recordMetrics writes a row for (line 1076), in order
RecordedTiers(res) ==
    SelectSeq(Tiers, LAMBDA k : res.tiers[k] # Null /\ res.tiers[k].active)

\* the row createMetric inserts
Metric(res, k) ==
    [session_id |-> res.session_id, scenario_id |-> res.scenario_id, tier |-> k,
     latency_ms |-> res.tiers[k].latency_ms, tokens_input |-> res.tiers[k].tokens_input,
     tokens_output |-> res.tiers[k].tokens_output, cost_usd |-> res.tiers[k].cost_usd]

\* recordMetrics, the first n rows
MetricRows(res, n) == [i \in 1..n |-> Metric(res, RecordedTiers(res)[i])]

(***************************************************************************)
(* StudioDecisionEngine: activity events                                   *)
(***************************************************************************)
\* the event each emitActivity call site publishes: <<tier, eventType>>
EventAt(label) ==
    CASE label = "scenario_started" -> <<"system", "scenario_started">>
      [] label = "mcp_routing" -> <<"mcp", "mcp_routing">>
      [] label = "mcp_disabled" -> <<"mcp", "mcp_disabled">>
      [] label = "mcp_executing" -> <<"mcp", "mcp_executing">>
      [] label = "mcp_result" -> <<"mcp", "mcp_result">>
      [] label = "mcp_failed" -> <<"mcp", "mcp_error">>
      [] label = "mcp_catch" -> <<"mcp", "mcp_error">>
      [] label = "edge_routing" -> <<"edge", "edge_routing">>
      [] label = "edge_unavailable" -> <<"edge", "edge_unavailable">>
      [] label = "edge_inference" -> <<"edge", "edge_inference">>
      [] label = "edge_result" -> <<"edge", "edge_result">>
      [] label = "edge_catch" -> <<"edge", "edge_error">>
      [] label = "cloud_routing" -> <<"cloud", "cloud_routing">>
      [] label = "cloud_not_configured" -> <<"cloud", "cloud_not_configured">>
      [] label = "cloud_processing" -> <<"cloud", "cloud_processing">>
      [] label = "cloud_result" -> <<"cloud", "cloud_result">>
      [] label = "cloud_catch" -> <<"cloud", "cloud_error">>
      [] label = "catch" -> <<"system", "error">>
      [] label = "finalize" -> <<"system", "scenario_completed">>

EmitLabels ==
    {"scenario_started", "mcp_routing", "mcp_disabled", "mcp_executing", "mcp_result",
     "mcp_failed", "mcp_catch", "edge_routing", "edge_unavailable", "edge_inference",
     "edge_result", "edge_catch", "cloud_routing", "cloud_not_configured",
     "cloud_processing", "cloud_result", "cloud_catch", "catch", "finalize"}

\* the event emitActivity builds
ActivityEvent(tier, eventType) ==
    [timestamp |-> now - startTime, tier |-> tier, eventType |-> eventType]

\* a timeline that grows at the front
PushFront(tl, event) == <<event>> \o tl

\* this.timeline.push(event)
Push(tl, event) == Append(tl, event)

\* emitActivity: retain the event, then hand it to the subscribers
emitActivity(label) ==
    LET event == ActivityEvent(EventAt(label)[1], EventAt(label)[2])
    IN  /\ timeline' = Push(timeline, event)
        /\ published' = Append(published, event)

\* tiers without a try block of their own
HandlerOutermost(label) == IF label = "catch" \/ caught THEN "thrown" ELSE "catch"

\* where an exception raised at a position of processScenario is caught: the
\* try block of the tier it is in, else the try block of processScenario, else
\* nowhere (it reaches the caller)
Handler(label) ==
    CASE label \in {"mcp_executing", "mcp_await", "mcp_result", "mcp_failed"} -> "mcp_catch"
      [] label \in {"edge_health", "edge_unavailable", "edge_inference", "edge_await",
                    "edge_result"} -> "edge_catch"
      [] label \in {"cloud_create", "cloud_processing", "cloud_await", "cloud_result"}
            -> "cloud_catch"
      [] label = "catch" -> "thrown"
      [] OTHER -> IF caught THEN "thrown" ELSE "catch"

SetTier(res, tier, outcome) == [res EXCEPT !.tiers[tier] = outcome]

\* a ladder in which a failed tool tier hands over to the cloud tier
NextAfterMCPToCloud(res) == IF MCPResolves(res) THEN "finalize" ELSE "cloud_routing"

\* a ladder that goes on after a resolving tool tier
NextAfterMCPAlwaysEdge(res) == "edge_routing"

\* processScenario after the tool tier (lines 604-610)
AfterMCP(res) == IF MCPResolves(res) THEN Resolved(res, "mcp") ELSE res
NextAfterMCP(res) == IF MCPResolves(res) THEN "finalize" ELSE "edge_routing"

\* processScenario after the edge tier (lines 615-620)
AfterEdge(res) == IF EdgeAccepted(res) THEN Resolved(res, "edge") ELSE res
NextAfterEdge(res) == IF EdgeAccepted(res) THEN "finalize" ELSE "cloud_routing"

\* processScenario after the cloud tier (lines 625-635)
AfterCloud(res) == IF CloudResolves(res) THEN Resolved(res, "cloud") ELSE CloudUnresolved(res)

Call(op, request) == [op |-> op, request |-> request]

\* Date.now() between two reads: the clock does not run backwards
Ticks == 0..(MaxTick - now)

(***************************************************************************)
(* StudioDecisionEngine.processScenario                                    *)
(***************************************************************************)
fixed == <<scenario, settings, startTime, sessionId, nextId, caught, metrics,
           subFaults, sinkFaults, dpc, demo, body, status, other, abandoned, costSummary>>

\* POST: a body that is not JSON ends in the route's catch block, a body without
\* the required fields is answered 400; no engine is constructed
Reject ==
    /\ pc = "idle" /\ dpc = "idle"
    /\ \E b \in Bodies :
          /\ ~Valid(b)
          /\ body' = b
          /\ status' = IF b.json THEN 400 ELSE 500
    /\ pc' = "rejected"
    /\ UNCHANGED <<scenario, settings, now, startTime, tierStart, timeline, published,
                   sessionId, nextId, result, pending, err, caught, metrics, entered, calls,
                   subFaults, sinkFaults, dpc, demo, other, abandoned, costSummary>>

ProcessScenario ==
    /\ pc = "idle" /\ dpc = "idle"
    /\ \E b \in Bodies :
          /\ Valid(b)
          /\ body' = b
          /\ scenario' = BuildScenario(b)
          /\ result' = NewResult(BuildScenario(b), nextId)
    /\ startTime' = now
    /\ timeline' = <<>>
    /\ sessionId' = nextId
    /\ nextId' = nextId + 1
    /\ pc' = "scenario_started"
    /\ UNCHANGED <<settings, now, tierStart, published, pending, err, caught, metrics,
                   entered, calls, subFaults, sinkFaults, dpc, demo, status, other, abandoned, costSummary>>

\* a ladder that starts at the tool tier whatever the scenario names
FirstTierAlwaysTool(scn) == "mcp_routing"

\* the tool tier is entered only for a scenario that names a tool (line 601)
FirstTier(scn) == IF scn.mcp_tool # NoTool THEN "mcp_routing" ELSE "edge_routing"

ScenarioStarted ==
    /\ pc = "scenario_started"
    /\ emitActivity("scenario_started")
    /\ pc' = FirstTier(scenario)
    /\ UNCHANGED <<fixed, now, tierStart, result, pending, err, entered, calls>>

\* executeMCPTier -----------------------------------------------------------
MCPRouting ==
    /\ pc = "mcp_routing"
    /\ tierStart' = now
    /\ entered' = Append(entered, "mcp")
    /\ emitActivity("mcp_routing")
    /\ pc' = IF ~settings.mcp_server_enabled THEN "mcp_disabled" ELSE "mcp_executing"
    /\ UNCHANGED <<fixed, now, result, pending, err, calls>>

MCPDisabled ==
    /\ pc = "mcp_disabled"
    /\ emitActivity("mcp_disabled")
    /\ LET res == SetTier(result, "mcp", MCPDisabledResult(now - tierStart))
       IN  result' = AfterMCP(res) /\ pc' = NextAfterMCP(res)
    /\ UNCHANGED <<fixed, now, tierStart, pending, err, entered, calls>>

MCPExecuting ==
    /\ pc = "mcp_executing"
    /\ emitActivity("mcp_executing")
    /\ calls' = Append(calls, Call("callTool", [name |-> scenario.mcp_tool]))
    /\ pc' = "mcp_await"
    /\ UNCHANGED <<fixed, now, tierStart, result, pending, err, entered>>

MCPAwait ==
    /\ pc = "mcp_await"
    /\ \E r \in callTool, d \in Ticks :
          /\ now' = now + d
          /\ IF r.value = Null
             THEN /\ err' = Thrown("Cannot read properties of null")
                  /\ pending' = pending
                  /\ pc' = Handler("mcp_await")
             ELSE /\ pending' = r.value
                  /\ err' = err
                  /\ pc' = IF r.value.success /\ r.value.result # ""
                           THEN "mcp_result" ELSE "mcp_failed"
    /\ UNCHANGED <<fixed, tierStart, timeline, published, result, entered, calls>>

MCPResult ==
    /\ pc = "mcp_result"
    /\ emitActivity("mcp_result")
    /\ LET res == SetTier(result, "mcp", MCPSuccessResult(scenario, pending, now - tierStart))
       IN  result' = AfterMCP(res) /\ pc' = NextAfterMCP(res)
    /\ UNCHANGED <<fixed, now, tierStart, pending, err, entered, calls>>

MCPFailed ==
    /\ pc = "mcp_failed"
    /\ emitActivity("mcp_failed")
    /\ LET res == SetTier(result, "mcp", MCPFailedResult(pending, now - tierStart))
       IN  result' = AfterMCP(res) /\ pc' = NextAfterMCP(res)
    /\ UNCHANGED <<fixed, now, tierStart, pending, err, entered, calls>>

MCPCatch ==
    /\ pc = "mcp_catch"
    /\ emitActivity("mcp_catch")
    /\ LET res == SetTier(result, "mcp", MCPErrorResult(err, now - tierStart))
       IN  result' = AfterMCP(res) /\ pc' = NextAfterMCP(res)
    /\ UNCHANGED <<fixed, now, tierStart, pending, err, entered, calls>>

\* executeEdgeTier ----------------------------------------------------------
EdgeRouting ==
    /\ pc = "edge_routing"
    /\ tierStart' = now
    /\ entered' = Append(entered, "edge")
    /\ emitActivity("edge_routing")
    /\ calls' = Append(calls, Call("healthCheck", Null))
    /\ pc' = "edge_health"
    /\ UNCHANGED <<fixed, now, result, pending, err>>

EdgeHealth ==
    /\ pc = "edge_health"
    /\ \E h \in healthCheck, d \in Ticks :
          /\ now' = now + d
          /\ IF h.kind = "throw"
             THEN err' = h /\ pc' = Handler("edge_health")
             ELSE /\ err' = err
                  /\ pc' = IF h.value.status # "healthy"
                           THEN "edge_unavailable" ELSE "edge_inference"
    /\ UNCHANGED <<fixed, tierStart, timeline, published, result, pending, entered, calls>>

EdgeUnavailable ==
    /\ pc = "edge_unavailable"
    /\ emitActivity("edge_unavailable")
    /\ LET res == SetTier(result, "edge", EdgeUnavailableResult(now - tierStart))
       IN  result' = AfterEdge(res) /\ pc' = NextAfterEdge(res)
    /\ UNCHANGED <<fixed, now, tierStart, pending, err, entered, calls>>

EdgeInference ==
    /\ pc = "edge_inference"
    /\ emitActivity("edge_inference")
    /\ calls' = Append(calls, Call("resolveIncident",
                   [description |-> buildEdgeDescription(scenario, result.tiers.mcp)]))
    /\ pc' = "edge_await"
    /\ UNCHANGED <<fixed, now, tierStart, result, pending, err, entered>>

EdgeAwait ==
    /\ pc = "edge_await"
    /\ \E r \in resolveIncident, d \in Ticks :
          /\ now' = now + d
          /\ IF r.kind = "throw"
             THEN err' = r /\ pending' = pending /\ pc' = Handler("edge_await")
             ELSE err' = err /\ pending' = r.value /\ pc' = "edge_result"
    /\ UNCHANGED <<fixed, tierStart, timeline, published, result, entered, calls>>

EdgeResult ==
    /\ pc = "edge_result"
    /\ emitActivity("edge_result")
    /\ LET res == SetTier(result, "edge",
                      EdgeSuccessResult(pending,
                                        buildEdgeDescription(scenario, result.tiers.mcp),
                                        now - tierStart))
       IN  result' = AfterEdge(res) /\ pc' = NextAfterEdge(res)
    /\ UNCHANGED <<fixed, now, tierStart, pending, err, entered, calls>>

EdgeCatch ==
    /\ pc = "edge_catch"
    /\ emitActivity("edge_catch")
    /\ LET res == SetTier(result, "edge", EdgeErrorResult(err, now - tierStart))
       IN  result' = AfterEdge(res) /\ pc' = NextAfterEdge(res)
    /\ UNCHANGED <<fixed, now, tierStart, pending, err, entered, calls>>

\* executeCloudTier ---------------------------------------------------------
CloudRouting ==
    /\ pc = "cloud_routing"
    /\ tierStart' = now
    /\ entered' = Append(entered, "cloud")
    /\ emitActivity("cloud_routing")
    /\ pc' = IF settings.cloud_api_key = "" THEN "cloud_not_configured" ELSE "cloud_create"
    /\ UNCHANGED <<fixed, now, result, pending, err, calls>>

CloudNotConfigured ==
    /\ pc = "cloud_not_configured"
    /\ emitActivity("cloud_not_configured")
    /\ result' = AfterCloud(SetTier(result, "cloud", CloudNotConfiguredResult(now - tierStart)))
    /\ pc' = "finalize"
    /\ UNCHANGED <<fixed, now, tierStart, pending, err, entered, calls>>

\* GenericCloudAgent.createWithConfig: the agent, or a CloudConfigurationError
createWithConfig ==
    {Returned([agent |-> "GenericCloudAgent"]),
     ThrownConfig("Cloud agent is not configured"),
     Thrown("Unsupported cloud provider")}

CloudCreate ==
    /\ pc = "cloud_create"
    /\ \E c \in createWithConfig :
          IF c.kind = "throw"
          THEN err' = c /\ pc' = Handler("cloud_create")
          ELSE err' = err /\ pc' = "cloud_processing"
    /\ UNCHANGED <<fixed, now, tierStart, timeline, published, result, pending, entered, calls>>

CloudProcessing ==
    /\ pc = "cloud_processing"
    /\ emitActivity("cloud_processing")
    /\ calls' = Append(calls, Call("resolveEscalation",
                   [description |-> scenario.description,
                    npuAttempt |-> NpuAttempt(result.tiers.edge)]))
    /\ pc' = "cloud_await"
    /\ UNCHANGED <<fixed, now, tierStart, result, pending, err, entered>>

CloudAwait ==
    /\ pc = "cloud_await"
    /\ \E r \in resolveEscalation, d \in Ticks :
          /\ now' = now + d
          /\ IF r.kind = "throw"
             THEN err' = r /\ pending' = pending /\ pc' = Handler("cloud_await")
             ELSE err' = err /\ pending' = r.value /\ pc' = "cloud_result"
    /\ UNCHANGED <<fixed, tierStart, timeline, published, result, entered, calls>>

CloudResult ==
    /\ pc = "cloud_result"
    /\ emitActivity("cloud_result")
    /\ result' = AfterCloud(SetTier(result, "cloud",
                     CloudSuccessResult(pending, scenario, settings, now - tierStart)))
    /\ pc' = "finalize"
    /\ UNCHANGED <<fixed, now, tierStart, pending, err, entered, calls>>

CloudCatch ==
    /\ pc = "cloud_catch"
    /\ emitActivity("cloud_catch")
    /\ result' = AfterCloud(SetTier(result, "cloud", CloudErrorResult(err, now - tierStart)))
    /\ pc' = "finalize"
    /\ UNCHANGED <<fixed, now, tierStart, pending, err, entered, calls>>

\* finalizeResult -----------------------------------------------------------
Finalize ==
    /\ pc = "finalize"
    /\ result' = Totals(result, scenario, timeline)
    /\ emitActivity("finalize")
    /\ pc' = "record_metrics"
    /\ UNCHANGED <<fixed, now, tierStart, pending, err, entered, calls>>

RecordMetrics ==
    /\ pc = "record_metrics"
    /\ metrics' = metrics \o MetricRows(result, Len(RecordedTiers(result)))
    /\ pc' = "returned"
    /\ UNCHANGED <<scenario, settings, now, startTime, tierStart, timeline, published,
                   sessionId, nextId, result, pending, err, caught, entered, calls,
                   subFaults, sinkFaults, dpc, demo, body, status, other, abandoned, costSummary>>

\* exceptions of the collaborators of finalization and of the subscribers ----
\* an 'activity' listener throws: the event is already retained, the exception
\* leaves emitActivity at the call site
SubscriberThrows ==
    /\ pc \in EmitLabels
    /\ subFaults < MaxSubFaults
    /\ subFaults' = subFaults + 1
    /\ emitActivity(pc)
    /\ result' = IF pc = "finalize" THEN Totals(result, scenario, timeline) ELSE result
    /\ tierStart' = IF pc \in {"mcp_routing", "edge_routing", "cloud_routing"}
                    THEN now ELSE tierStart
    /\ entered' = CASE pc = "mcp_routing" -> Append(entered, "mcp")
                    [] pc = "edge_routing" -> Append(entered, "edge")
                    [] pc = "cloud_routing" -> Append(entered, "cloud")
                    [] OTHER -> entered
    /\ err' = Thrown("subscriber failed")
    /\ pc' = Handler(pc)
    /\ UNCHANGED <<scenario, settings, now, startTime, sessionId, nextId, pending, caught,
                   metrics, calls, sinkFaults, dpc, demo, body, status, other, abandoned, costSummary>>

\* createMetric throws at the (n+1)-th row
SinkThrows ==
    /\ pc = "record_metrics"
    /\ sinkFaults < MaxSinkFaults
    /\ sinkFaults' = sinkFaults + 1
    /\ \E n \in 0..(Len(RecordedTiers(result)) - 1) :
          metrics' = metrics \o MetricRows(result, n)
    /\ err' = Thrown("database is locked")
    /\ pc' = Handler(pc)
    /\ UNCHANGED <<scenario, settings, now, startTime, tierStart, timeline, published,
                   sessionId, nextId, result, pending, caught, entered, calls,
                   subFaults, dpc, demo, body, status, other, abandoned, costSummary>>

\* the catch block of processScenario (lines 636-642)
Catch ==
    /\ pc = "catch"
    /\ caught' = TRUE
    /\ emitActivity("catch")
    /\ result' = [result EXCEPT !.success = FALSE, !.resolution = err.message]
    /\ pc' = "finalize"
    /\ UNCHANGED <<scenario, settings, now, startTime, tierStart, sessionId, nextId,
                   pending, err, metrics, entered, calls, subFaults, sinkFaults, dpc, demo, body, status, other, abandoned, costSummary>>

(***************************************************************************)
(* DemoDecisionEngine.routeIncident                                        *)
(***************************************************************************)
T1_KEYWORDS ==
    << <<"p","a","s","s","w","o","r","d">>, <<"r","e","s","e","t">>,
       <<"l","o","c","k","e","d">>, <<"a","c","c","o","u","n","t">>,
       <<"l","i","c","e","n","s","e">>, <<"a","c","t","i","v","a","t","i","o","n">>,
       <<"p","r","i","n","t","e","r">>, <<"e","m","a","i","l">>,
       <<"o","u","t","l","o","o","k">>, <<"l","o","g","i","n">>, <<"a","c","c","e","s","s">>,
       <<"f","o","r","g","o","t">> >>

T2_KEYWORDS ==
    << <<"v","p","n">>, <<"n","e","t","w","o","r","k">>, <<"o","u","t","a","g","e">>,
       <<"d","o","w","n">>, <<"s","e","c","u","r","i","t","y">>, <<"b","r","e","a","c","h">>,
       <<"m","a","l","w","a","r","e">>, <<"v","i","r","u","s">>,
       <<"i","n","t","e","g","r","a","t","i","o","n">>, <<"a","p","i">>,
       <<"s","e","r","v","e","r">>, <<"d","a","t","a","b","a","s","e">>,
       <<"c","r","i","t","i","c","a","l">>, <<"e","m","e","r","g","e","n","c","y">> >>

\* incidents submitted to /api/demo/process: summary and description joined;
\* the route gives the incident its id when the request arrives
Incidents ==
    {[id |-> 0, text |-> t, priority |-> p] :
        t \in {<<"V","P","N"," ","d","o","w","n">>, <<"f","o","r","g","o","t"," ","p","a","s","s","w","o","r","d">>,
               <<"s","c","r","e","e","n"," ","f","l","i","c","k","e","r","s">>},
        p \in {"medium", "critical"}}

HasKeyword(text, keywords) == \E i \in 1..Len(keywords) : Includes(text, keywords[i])

makeRoutingDecision(incident) ==
    LET text == ToLowerCase(incident.text)
    IN  IF HasKeyword(text, T2_KEYWORDS)
        THEN [route |-> "cloud", confidence |-> 80,
              reasoning |-> "Complex T2+ incident detected (network, security, or integration issue)"]
        ELSE IF incident.priority = "critical"
        THEN [route |-> "cloud", confidence |-> 90,
              reasoning |-> "Critical priority - routing to cloud for expert handling"]
        ELSE IF HasKeyword(text, T1_KEYWORDS)
        THEN [route |-> "npu", confidence |-> 75,
              reasoning |-> "Standard T1 pattern detected (password, access, or license issue)"]
        ELSE [route |-> "npu", confidence |-> 60,
              reasoning |-> "Unknown pattern - attempting local NPU resolution first"]

\* the test of handleWithNPU (line 227)
NPUSufficient(npuResult) ==
    ~npuResult.should_escalate /\ npuResult.confidence >= DemoThreshold

DemoEmit(d, types) == [d EXCEPT !.emitted = d.emitted \o types]

\* handleWithCloud up to the sleep: the escalation context is kept for the call
DemoToCloud(d, context) ==
    [DemoEmit(d, <<"cloud_routing">>) EXCEPT !.escalationContext = context]

\* the catch block of handleWithNPU
DemoNPUCatch(d) ==
    DemoToCloud([DemoEmit(d, <<"npu_error">>) EXCEPT !.status = "escalated"],
                [npuAttempt |-> [resolution |-> "", confidence |-> 0,
                                 reasoning |-> "NPU agent encountered an error"]])

\* a catch block that reports the error and leaves the call open
DemoCloudCatchSilent(d, e) ==
    [DemoEmit(d, <<"cloud_error">>) EXCEPT
        !.status = "escalated",
        !.result = [success |-> FALSE, agent |-> "cloud",
                    resolution |-> "Cloud agent encountered an error. Manual intervention required.",
                    confidence |-> 0, escalated |-> TRUE, escalationReason |-> e.message]]

\* a catch block that leaves the stored status as it is
DemoCloudCatchNoStatus(d, e) ==
    [DemoEmit(d, <<"cloud_error", "complete">>) EXCEPT
        !.result = [success |-> FALSE, agent |-> "cloud",
                    resolution |-> "Cloud agent encountered an error. Manual intervention required.",
                    confidence |-> 0, escalated |-> TRUE, escalationReason |-> e.message]]

\* the catch block of handleWithCloud
DemoCloudCatch(d, e) ==
    [DemoEmit(d, <<"cloud_error", "complete">>) EXCEPT
        !.status = "escalated",
        !.result = [success |-> FALSE, agent |-> "cloud",
                    resolution |-> "Cloud agent encountered an error. Manual intervention required.",
                    confidence |-> 0, escalated |-> TRUE, escalationReason |-> e.message]]

DemoInit ==
    [incident |-> Null, incidentId |-> 0, status |-> "none", routing |-> Null,
     resolutions |-> <<>>, emitted |-> <<>>, npuResult |-> Null,
     escalationContext |-> Null, calls |-> <<>>, result |-> Null, apiKey |-> TRUE,
     response |-> Null]

RouteIncident ==
    /\ pc = "idle" /\ dpc = "idle"
    /\ \E incident \in Incidents, key \in BOOLEAN :
          demo' = DemoEmit([demo EXCEPT !.incident = [incident EXCEPT !.id = nextId],
                                        !.incidentId = nextId + 1,
                                        !.status = "open", !.apiKey = key],
                           <<"incident_received">>)
    /\ nextId' = nextId + 2
    /\ dpc' = "classify"
    /\ UNCHANGED <<pc, scenario, settings, now, startTime, tierStart, timeline, published,
                   sessionId, result, pending, err, caught, metrics, entered, calls,
                   subFaults, sinkFaults, body, status, other, abandoned, costSummary>>

DemoClassify ==
    /\ dpc = "classify"
    /\ LET decision == makeRoutingDecision(demo.incident)
           d1 == DemoEmit([demo EXCEPT !.routing =
                              [incident_id |-> demo.incidentId, route |-> decision.route,
                               reasoning |-> decision.reasoning,
                               confidence |-> decision.confidence]],
                          <<"classified">>)
       IN  IF decision.route = "npu"
           THEN /\ demo' = [DemoEmit(d1, <<"routing">>) EXCEPT
                               !.calls = Append(d1.calls, Call("healthCheck", Null))]
                /\ dpc' = "npu_health"
           ELSE /\ demo' = DemoToCloud(d1, Null)
                /\ dpc' = "cloud_start"
    /\ UNCHANGED studioVars

DemoNPUHealth ==
    /\ dpc = "npu_health"
    /\ \E h \in healthCheck :
          IF h.kind = "throw"
          THEN demo' = DemoNPUCatch(demo) /\ dpc' = "cloud_start"
          ELSE IF h.value.status # "healthy"
          THEN /\ demo' = DemoToCloud(
                            [DemoEmit(demo, <<"npu_unavailable">>) EXCEPT !.status = "escalated"],
                            [npuAttempt |-> [resolution |-> "", confidence |-> 0,
                                             reasoning |-> "NPU agent service unavailable"]])
               /\ dpc' = "cloud_start"
          ELSE /\ demo' = [DemoEmit(demo, <<"rag_search", "npu_inference">>) EXCEPT
                              !.calls = Append(demo.calls,
                                               Call("resolveIncident", [id |-> demo.incident.id]))]
               /\ dpc' = "npu_await"
    /\ UNCHANGED studioVars

DemoNPUAwait ==
    /\ dpc = "npu_await"
    /\ \E r \in resolveIncident :
          IF r.kind = "throw"
          THEN demo' = DemoNPUCatch(demo) /\ dpc' = "cloud_start"
          ELSE LET npuResult == r.value
                   d1 == DemoEmit([demo EXCEPT !.npuResult = npuResult], <<"npu_result">>)
               IN  IF NPUSufficient(npuResult)
                   THEN /\ demo' = [DemoEmit(d1, <<"resolution_accepted", "complete">>) EXCEPT
                                       !.resolutions = Append(d1.resolutions,
                                           [incident_id |-> d1.incidentId, agent |-> "npu",
                                            resolution |-> npuResult.resolution,
                                            confidence |-> npuResult.confidence]),
                                       !.status = "resolved",
                                       !.result = [success |-> TRUE, agent |-> "npu",
                                                   resolution |-> npuResult.resolution,
                                                   confidence |-> npuResult.confidence,
                                                   escalated |-> FALSE, escalationReason |-> ""]]
                        /\ dpc' = "returned"
                   ELSE /\ demo' = DemoToCloud(
                                     [DemoEmit(d1, <<"escalation_triggered">>) EXCEPT
                                         !.status = "escalated"],
                                     [npuAttempt |->
                                         [resolution |-> npuResult.resolution,
                                          confidence |-> npuResult.confidence,
                                          reasoning |-> OrElse(npuResult.escalation_reason,
                                                               "Confidence below threshold")]])
                        /\ dpc' = "cloud_start"
    /\ UNCHANGED studioVars

\* getCloudAgent: the constructor throws without CLOUD_AI_API_KEY
DemoCloudStart ==
    /\ dpc = "cloud_start"
    /\ IF ~demo.apiKey
       THEN /\ demo' = DemoCloudCatch(demo,
                           Thrown("CLOUD_AI_API_KEY environment variable is required"))
            /\ dpc' = "returned"
       ELSE /\ demo' = [DemoEmit(demo, <<"cloud_processing">>) EXCEPT
                           !.calls = Append(demo.calls,
                               Call("resolveEscalation",
                                    [id |-> demo.incident.id,
                                     npuAttempt |-> IF demo.escalationContext = Null THEN Null
                                                    ELSE demo.escalationContext.npuAttempt]))]
            /\ dpc' = "cloud_await"
    /\ UNCHANGED studioVars

DemoCloudAwait ==
    /\ dpc = "cloud_await"
    /\ \E r \in resolveEscalation :
          IF r.kind = "throw"
          THEN demo' = DemoCloudCatch(demo, r)
          ELSE LET cloudResult == r.value
                   d1 == DemoEmit(demo, <<"cloud_result">>)
               IN  IF ~cloudResult.requires_specialist
                   THEN demo' = [DemoEmit(d1, <<"resolution_accepted", "kb_sync", "complete">>)
                                 EXCEPT
                                    !.resolutions = Append(d1.resolutions,
                                        [incident_id |-> d1.incidentId, agent |-> "cloud",
                                         resolution |-> cloudResult.resolution,
                                         confidence |-> cloudResult.confidence]),
                                    !.status = "resolved",
                                    !.result = [success |-> TRUE, agent |-> "cloud",
                                                resolution |-> cloudResult.resolution,
                                                confidence |-> cloudResult.confidence,
                                                escalated |-> demo.escalationContext # Null,
                                                escalationReason |-> ""]]
                   ELSE demo' = [DemoEmit(d1, <<"human_escalation", "complete">>) EXCEPT
                                    !.status = "escalated",
                                    !.result = [success |-> FALSE, agent |-> "cloud",
                                                resolution |-> cloudResult.resolution,
                                                confidence |-> cloudResult.confidence,
                                                escalated |-> TRUE,
                                                escalationReason |->
                                                    OrElse(cloudResult.specialist_notes,
                                                           "Requires human specialist")]]
    /\ dpc' = "returned"
    /\ UNCHANGED studioVars

\* getIncidentDetails: the rows stored under the given id
getIncidentDetails(d, id) ==
    LET stored == SelectSeq(d.resolutions, LAMBDA r : r.incident_id = id)
    IN  [incident |-> IF d.incidentId = id THEN [id |-> d.incidentId, status |-> d.status]
                      ELSE Null,
         routing |-> IF d.routing # Null /\ d.routing.incident_id = id THEN d.routing ELSE Null,
         resolution |-> IF stored = <<>> THEN Null ELSE Head(stored)]

\* POST /api/demo/process after routeIncident has returned (lines 47-79)
DemoRespond ==
    /\ dpc = "returned"
    /\ LET details == getIncidentDetails(demo, demo.incident.id)
       IN  demo' = [demo EXCEPT !.response =
                      [success |-> TRUE,
                       incidentId |-> demo.incident.id,
                       classification |-> IF details.routing # Null /\ details.routing.route = "npu"
                                          THEN "T1 Incident" ELSE "T2+ Incident",
                       route |-> demo.result.agent,
                       reasoning |-> IF details.routing = Null THEN "Processing..."
                                     ELSE OrElse(details.routing.reasoning, "Processing..."),
                       confidence |-> demo.result.confidence,
                       status |-> IF demo.result.success THEN "Resolved" ELSE "Escalated",
                       resolution |-> demo.result.resolution]]
    /\ dpc' = "responded"
    /\ UNCHANGED studioVars

(***************************************************************************)
(* Specifications                                                          *)
(***************************************************************************)
(***************************************************************************)
(* A second request, served by the same process while the first awaits     *)
(***************************************************************************)
\* positions at which processScenario is suspended on a backend call
AwaitLabels == {"mcp_await", "edge_health", "edge_await", "cloud_await"}

\* one engine for every request
SharedEngine(request) == "first"

\* the engine serving a request: the route constructs one per request
\* (route.ts line 30)
NewEngine(request) == request

\* the fields of the second engine, and the session id its call put in its result
OtherInit ==
    [pc |-> "idle", session_id |-> 0,
     engine |-> [sessionId |-> 0, startTime |-> 0, timeline |-> <<>>]]

\* an event of the second request; `session` marks whose call emitted it
OtherEvent(start, tier, eventType, sid) ==
    [timestamp |-> now - start, tier |-> tier, eventType |-> eventType, session |-> sid]

\* the second request: processScenario from its start to its first await
\* (scenario without tool: scenario_started, edge_routing, then healthCheck)
OtherStart ==
    /\ pc \in AwaitLabels
    /\ other.pc = "idle"
    /\ nextId' = nextId + 1
    /\ LET events == <<OtherEvent(now, "system", "scenario_started", nextId),
                       OtherEvent(now, "edge", "edge_routing", nextId)>>
       IN  IF NewEngine("second") = "first"
           THEN /\ startTime' = now
                /\ sessionId' = nextId
                /\ timeline' = events
                /\ published' = published \o events
                /\ other' = [other EXCEPT !.pc = "awaiting", !.session_id = nextId]
           ELSE /\ other' = [pc |-> "awaiting", session_id |-> nextId,
                             engine |-> [sessionId |-> nextId, startTime |-> now,
                                         timeline |-> events]]
                /\ UNCHANGED <<startTime, sessionId, timeline, published>>
    /\ UNCHANGED <<pc, scenario, settings, now, tierStart, result, pending, err, caught,
                   metrics, entered, calls, subFaults, sinkFaults, dpc, demo, body, status, abandoned, costSummary>>

\* the second request from the return of its await to its end: healthCheck
\* threw (edge_error, an active edge outcome), the cloud tier ends without a
\* backend call (no key, or a configuration error), finalizeResult writes the
\* one row of its active tier
OtherFinish ==
    /\ pc \in AwaitLabels \cup {"returned"}
    /\ other.pc = "awaiting"
    /\ LET shared == NewEngine("second") = "first"
           start == IF shared THEN startTime ELSE other.engine.startTime
           events == <<OtherEvent(start, "edge", "edge_error", other.session_id),
                       OtherEvent(start, "cloud", "cloud_routing", other.session_id),
                       OtherEvent(start, "cloud",
                                  IF settings.cloud_api_key = "" THEN "cloud_not_configured"
                                  ELSE "cloud_error", other.session_id),
                       OtherEvent(start, "system", "scenario_completed", other.session_id)>>
       IN  IF shared
           THEN /\ timeline' = timeline \o events
                /\ published' = published \o events
                /\ other' = [other EXCEPT !.pc = "done"]
           ELSE /\ other' = [other EXCEPT !.pc = "done",
                                          !.engine.timeline = @ \o events]
                /\ UNCHANGED <<timeline, published>>
    /\ metrics' = Append(metrics,
                         [session_id |-> other.session_id, scenario_id |-> "scn-2",
                          tier |-> "edge", latency_ms |-> 0, tokens_input |-> 0,
                          tokens_output |-> 0, cost_usd |-> 0])
    /\ UNCHANGED <<pc, scenario, settings, now, startTime, tierStart, sessionId, nextId,
                   result, pending, err, caught, entered, calls, subFaults, sinkFaults,
                   dpc, demo, body, status, abandoned, costSummary>>

(***************************************************************************)
(* The caller gives up                                                     *)
(***************************************************************************)
\* the client aborts its fetch while processScenario awaits a backend
\* (useScenarioProcessor.ts, cancelProcessing); neither route looks at the
\* request's signal, so nothing of the engine changes at this moment
Abandon ==
    /\ pc \in AwaitLabels
    /\ abandoned = Null
    /\ abandoned' = [pc |-> pc, result |-> result, calls |-> Len(calls),
                     published |-> Len(published), metrics |-> Len(metrics)]
    /\ UNCHANGED <<pc, scenario, settings, now, startTime, tierStart, timeline, published,
                   sessionId, nextId, result, pending, err, caught, metrics, entered, calls,
                   subFaults, sinkFaults, dpc, demo, body, status, other, costSummary>>

Init ==
    /\ pc = "idle"
    /\ scenario = Null
    /\ settings \in SettingsValues
    /\ now = 0
    /\ startTime = 0
    /\ tierStart = 0
    /\ timeline = <<>>
    /\ published = <<>>
    /\ sessionId = 0
    /\ nextId = 1
    /\ result = Null
    /\ pending = Null
    /\ err = Null
    /\ caught = FALSE
    /\ metrics \in {<<>>,
                    <<[session_id |-> 0, scenario_id |-> "scn-1", tier |-> "edge",
                       latency_ms |-> 1, tokens_input |-> 7, tokens_output |-> 5,
                       cost_usd |-> 0]>>}
    /\ entered = <<>>
    /\ calls = <<>>
    /\ subFaults = 0
    /\ sinkFaults = 0
    /\ dpc = "idle"
    /\ demo = DemoInit
    /\ body = Null
    /\ status = 0
    /\ other = OtherInit
    /\ abandoned = Null
    /\ costSummary = EmptySummary

\* calculateSessionSummary handles the next entry
SummaryEntry ==
    /\ Len(costSummary.priced) < MaxEntries
    /\ \E model \in ModelNames, usage \in Usages :
          costSummary' = AddEntry(costSummary, [model |-> model, usage |-> usage])
    /\ UNCHANGED <<pc, scenario, settings, now, startTime, tierStart, timeline, published,
                   sessionId, nextId, result, pending, err, caught, metrics, entered, calls,
                   subFaults, sinkFaults, dpc, demo, body, status, other, abandoned>>

Studio ==
    \/ Reject \/ ProcessScenario \/ ScenarioStarted
    \/ MCPRouting \/ MCPDisabled \/ MCPExecuting \/ MCPAwait \/ MCPResult \/ MCPFailed
    \/ MCPCatch
    \/ EdgeRouting \/ EdgeHealth \/ EdgeUnavailable \/ EdgeInference \/ EdgeAwait
    \/ EdgeResult \/ EdgeCatch
    \/ CloudRouting \/ CloudNotConfigured \/ CloudCreate \/ CloudProcessing \/ CloudAwait
    \/ CloudResult \/ CloudCatch
    \/ Finalize \/ RecordMetrics

Demo ==
    \/ RouteIncident \/ DemoClassify \/ DemoNPUHealth \/ DemoNPUAwait \/ DemoCloudStart
    \/ DemoCloudAwait \/ DemoRespond

\* subscribers and the metrics sink never throw
Next == Studio \/ Demo

Spec == Init /\ [][Next]_vars

\* subscribers and the metrics sink may throw
NextFaulty == Studio \/ Demo \/ SubscriberThrows \/ SinkThrows \/ Catch

SpecFaulty == Init /\ [][NextFaulty]_vars

\* two requests in one process
NextConcurrent == Studio \/ Demo \/ OtherStart \/ OtherFinish

SpecConcurrent == Init /\ [][NextConcurrent]_vars

\* the pricing functions applied to a list of entries
NextPricing == SummaryEntry

\* the pricing functions read nothing of the engines: one initial state
InitPricing ==
    /\ Init
    /\ settings = [mcp_server_enabled |-> FALSE, cloud_api_key |-> "", cloud_model |-> Name_gpt4o]
    /\ metrics = <<>>

SpecPricing == InitPricing /\ [][NextPricing]_vars

\* a caller that may give up
NextAbandon == Studio \/ Demo \/ Abandon

SpecAbandon == Init /\ [][NextAbandon]_vars

(***************************************************************************)
(* Properties                                                              *)
(***************************************************************************)
Last(q) == q[Len(q)]

Called(op) == \E i \in 1..Len(calls) : calls[i].op = op

Done == pc = "returned"

\* routeIncident has returned (and the route may have answered)
DemoDone == dpc \in {"returned", "responded"}

\* the edge tier has just produced its outcome and nothing was entered since
EdgeOutcomeIn == entered # <<>> /\ Last(entered) = "edge" /\ result.tiers.edge # Null

\* the answer of the NPU agent behind the edge outcome meets both conditions
StudioEdgeOK ==
    /\ result.tiers.edge.raw_data # Null
    /\ ~pending.should_escalate
    /\ pending.confidence >= 70

StudioEdgeTaken ==
    /\ pc \in {"finalize", "record_metrics", "returned"}
    /\ result.success
    /\ result.final_tier = "edge"
    /\ result.resolution = result.tiers.edge.response

DemoEdgeOK == ~demo.npuResult.should_escalate /\ demo.npuResult.confidence >= 70

DemoEdgeTaken ==
    /\ DemoDone
    /\ demo.result.success
    /\ demo.result.agent = "npu"
    /\ demo.status = "resolved"

DemoEmitted(type) == \E i \in 1..Len(demo.emitted) : demo.emitted[i] = type

\* C1: in both engines the answer of the edge (NPU) tier is taken as the
\* resolution exactly when should_escalate is false and the confidence is at
\* least 0.70; otherwise the edge decision is 'escalate' and the cloud tier is
\* the next thing attempted.
C1_EdgeAcceptance ==
    /\ EdgeOutcomeIn =>
          /\ StudioEdgeTaken <=> StudioEdgeOK
          /\ ~StudioEdgeOK =>
                /\ result.tiers.edge.decision = "escalate"
                /\ pc = "cloud_routing"
                /\ ~Called("resolveEscalation")
    /\ demo.npuResult # Null =>
          /\ DemoEdgeTaken <=> DemoEdgeOK
          /\ ~DemoEdgeOK =>
                /\ DemoEmitted("escalation_triggered")
                /\ Last(demo.emitted) = "cloud_routing" \/ DemoEmitted("cloud_routing")
                /\ dpc \in {"cloud_start", "cloud_await", "returned", "responded"}
                /\ DemoDone => demo.result.agent = "cloud"

\* an answer of exactly 0.70 without the escalate flag was accepted by processScenario
C1_Witness ==
    /\ EdgeOutcomeIn /\ Done
    /\ pending.confidence = 70 /\ ~pending.should_escalate
    /\ result.success /\ result.final_tier = "edge"

\* and by routeIncident
C1_WitnessDemo ==
    /\ dpc = "returned"
    /\ demo.npuResult # Null
    /\ demo.npuResult.confidence = 70
    /\ demo.result.agent = "npu"

TierFields == {"mcp", "edge", "cloud"}

\* the result a caller receives has every part filled in
Complete(res) ==
    /\ res.ticket_output # Null
    /\ res.final_tier \in TierFields
    /\ res.tiers[res.final_tier] # Null
    /\ res.total_latency_ms = SumOver(res, PresentTiers(res), "latency_ms")
    /\ res.total_tokens.input = SumOver(res, PresentTiers(res), "tokens_input")
    /\ res.total_tokens.output = SumOver(res, PresentTiers(res), "tokens_output")
    /\ res.resolution = IF res.success THEN res.tiers[res.final_tier].response
                        ELSE OrElse(res.tiers.cloud.response,
                                    "Requires human specialist intervention")
    /\ res.ticket_output.resolution = res.resolution

\* C3: an exception of a tier backend never leaves the tier: it reaches neither
\* the catch block of processScenario nor the caller, and the call returns a
\* complete result.
C3_TierErrorNotFatal ==
    /\ pc \notin {"catch", "thrown"}
    /\ Done => Complete(result)

\* the cloud backend threw and the call returned a failed, complete result
C3_Witness ==
    /\ Done
    /\ err # Null
    /\ result.tiers.cloud # Null
    /\ result.tiers.cloud.response = err.message
    /\ ~result.success

\* C4: final_tier of the returned result is the last tier that was entered, on
\* every path, the catch block's included.
C4_FinalTierIsLastAttempted ==
    Done => entered # <<>> /\ result.final_tier = Last(entered)

\* C5: a resolving tool tier leaves edge and cloud untouched, an accepted edge
\* tier leaves cloud untouched; the result is a success of the resolving tier
\* with its response.
C5_ShortCircuit ==
    /\ (result # Null /\ result.tiers.mcp # Null /\ result.tiers.mcp.decision = "resolve") =>
          /\ ~Called("healthCheck") /\ ~Called("resolveIncident")
          /\ ~Called("resolveEscalation")
          /\ entered = <<"mcp">>
          /\ result.tiers.edge = Null /\ result.tiers.cloud = Null
          /\ result.success /\ result.final_tier = "mcp"
          /\ result.resolution = result.tiers.mcp.response
    /\ (result # Null /\ result.tiers.edge # Null /\ EdgeAccepted(result)) =>
          /\ ~Called("resolveEscalation")
          /\ Last(entered) = "edge"
          /\ result.tiers.cloud = Null
          /\ result.success /\ result.final_tier = "edge"
          /\ result.resolution = result.tiers.edge.response

\* the tool tier resolved and the call returned
C5_Witness ==
    /\ Done
    /\ result.tiers.mcp # Null
    /\ result.tiers.mcp.decision = "resolve"
    /\ result.final_tier = "mcp"

\* C6: a cloud tier that ends without a resolve gives success=false,
\* final_tier 'cloud' and the cloud response as resolution, or the synthetic
\* message when that response is empty.
C6_CloudUnresolved ==
    (result # Null /\ result.tiers.cloud # Null /\ result.tiers.cloud.decision # "resolve") =>
        /\ ~result.success
        /\ result.final_tier = "cloud"
        /\ result.resolution # ""
        /\ result.resolution =
              IF result.tiers.cloud.response = ""
              THEN "Requires human specialist intervention"
              ELSE result.tiers.cloud.response

\* the cloud tier escalated with an empty response
C6_Witness ==
    /\ Done
    /\ result.tiers.cloud # Null
    /\ result.tiers.cloud.decision = "escalate"
    /\ result.tiers.cloud.response = ""
    /\ result.resolution = "Requires human specialist intervention"

CostOf(t) == IF t # Null /\ t.active THEN t.cost_usd ELSE 0

\* C7: total_cost_usd is the sum of cost_usd over the tiers that ran; a tier
\* that is null or inactive costs 0; a total above 0 needs a cloud tier that ran.
C7_CostAdditivity ==
    Done =>
        /\ result.total_cost_usd =
              CostOf(result.tiers.mcp) + CostOf(result.tiers.edge) + CostOf(result.tiers.cloud)
        /\ \A k \in TierFields :
              (result.tiers[k] # Null /\ ~result.tiers[k].active) => result.tiers[k].cost_usd = 0
        /\ result.total_cost_usd # 0 =>
              result.tiers.cloud # Null /\ result.tiers.cloud.active

\* a cloud tier that ran on a priced model made the total positive
C7_Witness ==
    /\ Done
    /\ result.tiers.edge # Null
    /\ result.tiers.cloud # Null
    /\ result.total_cost_usd > 0

\* C8: the timestamps of the retained events never decrease, and when the call
\* returns the last retained event is the system event scenario_completed.
C8_EventOrder ==
    /\ \A i \in 1..(Len(timeline) - 1) : timeline[i].timestamp <= timeline[i + 1].timestamp
    /\ Done =>
          /\ timeline # <<>>
          /\ Last(timeline).tier = "system"
          /\ Last(timeline).eventType = "scenario_completed"

\* the clock moved during the call
C8_Witness ==
    /\ Done
    /\ Len(timeline) > 2
    /\ timeline[1].timestamp < Last(timeline).timestamp

RowsOf(sid, k) ==
    {i \in 1..Len(metrics) : metrics[i].session_id = sid /\ metrics[i].tier = k}

\* C9: on return the store holds one row of this session for each tier that
\* ran, none for a tier that is null or inactive, and the rows of earlier
\* sessions are as they were.
C9_MetricsPerActiveTier ==
    Done =>
        /\ \A k \in TierFields :
              Cardinality(RowsOf(sessionId, k)) =
                  IF result.tiers[k] # Null /\ result.tiers[k].active THEN 1 ELSE 0
        /\ Cardinality({i \in 1..Len(metrics) : metrics[i].session_id # sessionId}) <= 1
        /\ Len(metrics) <= 4

\* edge ran, cloud was skipped for want of a key, an earlier row was in the store
C9_Witness ==
    /\ Done
    /\ result.tiers.edge # Null /\ result.tiers.edge.active
    /\ result.tiers.cloud # Null /\ ~result.tiers.cloud.active
    /\ Cardinality(RowsOf(sessionId, "edge")) = 1
    /\ Cardinality(RowsOf(0, "edge")) = 1

ToolDisabled ==
    /\ scenario # Null
    /\ scenario.mcp_tool # NoTool
    /\ ~settings.mcp_server_enabled

\* C10: with a tool named and the tool tier disabled, callTool is never called,
\* the tool outcome is inactive with decision 'escalate' and a skip reason, and
\* the edge tier is what follows.
C10_DisabledToolSkipped ==
    ToolDisabled =>
        /\ ~Called("callTool")
        /\ pc \notin {"mcp_executing", "mcp_await", "mcp_result", "mcp_failed", "mcp_catch"}
        /\ pc \notin {"scenario_started", "mcp_routing", "mcp_disabled"} =>
              /\ result.tiers.mcp # Null
              /\ ~result.tiers.mcp.active
              /\ result.tiers.mcp.decision = "escalate"
              /\ result.tiers.mcp.response = "MCP server disabled"
              /\ pc = "edge_routing" \/ (Len(entered) >= 2 /\ entered[2] = "edge")
              /\ calls # <<>> => calls[1].op = "healthCheck"

\* the call returned with the tool tier skipped and the edge tier entered
C10_Witness ==
    /\ ToolDisabled /\ Done
    /\ ~result.tiers.mcp.active
    /\ entered[2] = "edge"

NoToolNamed == scenario # Null /\ scenario.mcp_tool = NoTool

\* C11: for a scenario that names no tool, callTool is never called, no event
\* of the tool tier is retained or published, the tool outcome stays null and
\* the first tier entered is the edge tier.
C11_NoToolSkipsToolTier ==
    NoToolNamed =>
        /\ ~Called("callTool")
        /\ \A i \in 1..Len(timeline) : timeline[i].tier # "mcp"
        /\ \A i \in 1..Len(published) : published[i].tier # "mcp"
        /\ result.tiers.mcp = Null
        /\ entered # <<>> => entered[1] = "edge"
        /\ pc \notin {"mcp_routing", "mcp_disabled", "mcp_executing", "mcp_await",
                      "mcp_result", "mcp_failed", "mcp_catch"}

\* a call without a tool returned after the edge and cloud tiers were entered
C11_Witness ==
    /\ NoToolNamed /\ Done
    /\ entered = <<"edge", "cloud">>
    /\ result.tiers.mcp = Null

\* the edge tier ended without a call of resolveIncident: its health check
\* answered not healthy, or threw
HealthCheckFailed ==
    /\ result # Null
    /\ result.tiers.edge # Null
    /\ ~Called("resolveIncident")

CloudOutcomeIn == result # Null /\ result.tiers.cloud # Null

ConfigurationOutcome(t) == ~t.active /\ t.decision = "error" /\ t.confidence = 0

\* C13: without an API key the cloud agent is never called, the cloud outcome
\* is an inactive 'error' with confidence 0, the result fails at final_tier
\* 'cloud' and its resolution tells the user to configure the key; a
\* CloudConfigurationError raised on dispatch also gives an inactive 'error'.
C13_CloudConfiguration ==
    /\ (scenario # Null /\ settings.cloud_api_key = "") =>
          /\ ~Called("resolveEscalation")
          /\ pc \notin {"cloud_create", "cloud_processing", "cloud_await", "cloud_result",
                        "cloud_catch"}
          /\ CloudOutcomeIn =>
                /\ ConfigurationOutcome(result.tiers.cloud)
                /\ ~result.success
                /\ result.final_tier = "cloud"
                /\ result.resolution =
                      "Cloud API not configured. Please configure API key in settings."
    /\ (CloudOutcomeIn /\ err # Null /\ err.config) =>
          /\ ConfigurationOutcome(result.tiers.cloud)
          /\ ~Called("resolveEscalation")
          /\ ~result.success
          /\ result.final_tier = "cloud"

\* the call returned after the cloud tier was skipped for want of a key
C13_Witness ==
    /\ Done
    /\ settings.cloud_api_key = ""
    /\ CloudOutcomeIn
    /\ ~result.tiers.cloud.active

\* the call returned after createWithConfig raised a CloudConfigurationError
C13_WitnessDispatch ==
    /\ Done
    /\ CloudOutcomeIn
    /\ err # Null /\ err.config
    /\ result.resolution = "Cloud agent configuration error. Check API settings."

\* the outcome of tier k was made from the exception last thrown by a tier client
OutcomeOfException(k) ==
    /\ result # Null
    /\ result.tiers[k] # Null
    /\ err # Null
    /\ ~err.config
    /\ result.tiers[k].response = err.message

\* C14: the outcome a tier makes of an exception of its client is an active
\* 'error' with confidence 0, for the tool, edge and cloud tiers alike.
C14_TierExceptionIsError ==
    \A k \in TierFields :
        OutcomeOfException(k) =>
            /\ result.tiers[k].decision = "error"
            /\ result.tiers[k].active
            /\ result.tiers[k].confidence = 0

\* the prior attempt of a cloud request repeats the answer of the NPU agent: its
\* text, its confidence and, when it gave one, its reasoning
CarriesAttempt(attempt, response, confidence, reasoning) ==
    /\ attempt # Null
    /\ attempt.resolution = response
    /\ attempt.confidence = confidence
    /\ reasoning # "" => attempt.reasoning = reasoning

\* processScenario: the edge tier produced a result (raw_data is set) and the
\* cloud agent was called
C15_StudioPriorAttempt ==
    \A i \in 1..Len(calls) :
        (calls[i].op = "resolveEscalation" /\ result.tiers.edge # Null
            /\ result.tiers.edge.raw_data # Null) =>
            CarriesAttempt(calls[i].request.npuAttempt, result.tiers.edge.response,
                           result.tiers.edge.confidence, result.tiers.edge.raw_data.reasoning)

\* routeIncident: the NPU agent answered and the cloud agent was called
C15_DemoPriorAttempt ==
    \A i \in 1..Len(demo.calls) :
        (demo.calls[i].op = "resolveEscalation" /\ demo.npuResult # Null) =>
            CarriesAttempt(demo.calls[i].request.npuAttempt, demo.npuResult.resolution,
                           demo.npuResult.confidence, demo.npuResult.reasoning)

\* C15: in both engines a cloud request made after the edge tier produced a
\* result carries the edge tier's response text, confidence and reasoning.
C15_PriorAttempt == C15_StudioPriorAttempt /\ C15_DemoPriorAttempt

\* the edge request has just been made after a tool tier whose answer had data
EscalatedWithToolData ==
    /\ pc = "edge_await"
    /\ result.tiers.mcp # Null
    /\ result.tiers.mcp.active
    /\ pending # Null
    /\ pending.result # ""

\* C16: the description given to the edge backend after the tool tier is the
\* scenario's description with the tool's result data appended.
C16_ToolDataAppended ==
    EscalatedWithToolData =>
        Last(calls).request.description =
            scenario.description \o "\n\n--- System Data from MCP ---\n" \o pending.result

\* what the code does instead: every edge request carries the bare description
C16_BareDescription ==
    \A i \in 1..Len(calls) :
        calls[i].op = "resolveIncident" => calls[i].request.description = scenario.description

\* the request carries no scenario, or one without id or without summary
Malformed ==
    /\ body # Null
    /\ \/ ~body.json
       \/ body.scenario = Null
       \/ body.scenario.id = ""
       \/ body.scenario.summary = ""

\* nothing of a session exists
NoSession ==
    /\ scenario = Null /\ result = Null
    /\ sessionId = 0 /\ nextId = 1
    /\ timeline = <<>> /\ published = <<>>
    /\ entered = <<>> /\ calls = <<>>
    /\ \A i \in 1..Len(metrics) : metrics[i].session_id = 0
    /\ Len(metrics) <= 1

\* C17: a request whose scenario lacks id or summary is answered with an error
\* and leaves no session, event, backend call or metric behind; no other
\* request is answered with an error, and no exception reaches the caller.
C17_MalformedRejected ==
    /\ Malformed => (pc = "rejected" /\ status # 0 /\ NoSession)
    /\ status # 0 => Malformed
    /\ pc # "thrown"

\* a scenario without summary was answered 400
C17_Witness ==
    /\ pc = "rejected"
    /\ status = 400
    /\ body.scenario # Null
    /\ body.scenario.summary = ""

\* every event of the list was emitted by the first request's own call
OwnEvents(q) == \A i \in 1..Len(q) : "session" \notin DOMAIN q[i]

RowsOfSession(sid) == SelectSeq(metrics, LAMBDA row : row.session_id = sid)

\* C18: with a second request served while the first awaits, the two calls have
\* different fresh session ids, the first call's retained, published and
\* returned events are its own, each engine's list holds only its own events,
\* and the rows written for a session are those of its own result.
C18_SessionsIndependent ==
    /\ other.session_id # 0 =>
          /\ other.session_id # sessionId
          /\ other.engine.sessionId = other.session_id
          /\ result # Null => result.session_id = sessionId
    /\ OwnEvents(timeline) /\ OwnEvents(published)
    /\ result # Null => OwnEvents(result.timeline)
    /\ \A i \in 1..Len(other.engine.timeline) :
          other.engine.timeline[i].session = other.session_id
    /\ Done =>
          /\ timeline = published
          /\ result.timeline = SubSeq(timeline, 1, Len(timeline) - 1)
          /\ RowsOfSession(sessionId) = MetricRows(result, Len(RecordedTiers(result)))
          /\ \A i \in 1..Len(metrics) :
                metrics[i].session_id \in {0, sessionId, other.session_id}
    /\ \A i \in 1..Len(RowsOfSession(other.session_id)) :
          other.session_id # 0 => RowsOfSession(other.session_id)[i].scenario_id = "scn-2"

\* both calls ended, the second one's row was written before the first one's
C18_Witness ==
    /\ Done
    /\ other.pc = "done"
    /\ Len(other.engine.timeline) > 2
    /\ \E i, j \in 1..Len(metrics) :
          /\ i < j
          /\ metrics[i].session_id = other.session_id
          /\ metrics[j].session_id = sessionId

\* C19: once the caller has given up, the outcome of the call in flight is not
\* applied to the result, no further backend is called, no further event is
\* handed to the caller's subscriber and nothing is recorded.
C19_AbandonedDiscarded ==
    abandoned # Null =>
        /\ result = abandoned.result
        /\ Len(calls) = abandoned.calls
        /\ Len(published) = abandoned.published
        /\ Len(metrics) = abandoned.metrics

TierRank(tier) == CASE tier = "mcp" -> 1 [] tier = "edge" -> 2 [] tier = "cloud" -> 3

OpRank(op) ==
    CASE op = "callTool" -> 1
      [] op \in {"healthCheck", "resolveIncident"} -> 2
      [] op = "resolveEscalation" -> 3

\* the tier whose backend call is in flight at an await
TierInFlight ==
    CASE pc = "mcp_await" -> 1
      [] pc \in {"edge_health", "edge_await"} -> 2
      [] pc = "cloud_await" -> 3

\* C20: a backend call is in flight only at an await and is the last call made;
\* calls are made in ladder order; a tier's call is made only when the earlier
\* tier's outcome is in the result and was not accepted; in the retained events
\* tool events precede edge events, which precede cloud events.
C20_OneTierAtATime ==
    /\ \A i, j \in 1..Len(calls) : i < j => OpRank(calls[i].op) <= OpRank(calls[j].op)
    /\ pc \in AwaitLabels =>
          /\ calls # <<>>
          /\ OpRank(Last(calls).op) = TierInFlight
          /\ entered # <<>> /\ TierRank(Last(entered)) = TierInFlight
    /\ \A i \in 1..Len(calls) :
          /\ OpRank(calls[i].op) >= 2 =>
                \/ scenario.mcp_tool = NoTool /\ result.tiers.mcp = Null
                \/ result.tiers.mcp # Null /\ ~MCPResolves(result)
          /\ OpRank(calls[i].op) = 3 =>
                result.tiers.edge # Null /\ ~EdgeAccepted(result)
    /\ \A i, j \in 1..Len(timeline) :
          (i < j /\ timeline[i].tier # "system" /\ timeline[j].tier # "system") =>
              TierRank(timeline[i].tier) <= TierRank(timeline[j].tier)
    /\ \A i, j \in 1..Len(entered) : i < j => TierRank(entered[i]) < TierRank(entered[j])

\* all three tiers were attempted in one call
C20_Witness ==
    /\ Done
    /\ entered = <<"mcp", "edge", "cloud">>
    /\ Called("callTool") /\ Called("resolveIncident") /\ Called("resolveEscalation")

(***************************************************************************)
(* Pricing                                                                 *)
(***************************************************************************)
Priced == {costSummary.priced[i] : i \in 1..Len(costSummary.priced)}

ZeroPrice(pricing) == pricing.input = 0 /\ pricing.output = 0

\* C21: a model is local exactly when its price is zero for input and for
\* output, and the cost of any token usage of a local model is 0
C21_LocalIsFree ==
    \A e \in Priced :
        /\ e.isLocal <=> ZeroPrice(e.pricing)
        /\ e.isLocal => e.cost = 0

\* a local model was priced for a usage with tokens, and so was a cloud model
\* whose name carries a local pattern
C21_Witness ==
    /\ \E e \in Priced : e.isLocal /\ e.usage.input > 0 /\ e.usage.output > 0
    /\ \E e \in Priced : ~e.isLocal /\ isLocalModelByPattern(e.model) /\ e.cost > 0


\* table keys that are a proper prefix of the normalized name
KeysPrefixing(model) ==
    {i \in 1..Len(MODEL_PRICING) :
        /\ StartsWith(ToLowerCase(model), MODEL_PRICING[i].key)
        /\ MODEL_PRICING[i].key # ToLowerCase(model)}

Versioned(model) ==
    /\ KeysPrefixing(model) # {}
    /\ \A i \in 1..Len(MODEL_PRICING) : MODEL_PRICING[i].key # ToLowerCase(model)

LongestKey(model) ==
    CHOOSE i \in KeysPrefixing(model) :
        \A j \in KeysPrefixing(model) : Len(MODEL_PRICING[j].key) <= Len(MODEL_PRICING[i].key)

\* C30: a versioned model name is priced by the longest table key that is a
\* prefix of it, whatever the order of the keys in the table
C30_MostSpecificKey ==
    \A e \in Priced :
        Versioned(e.model) =>
            /\ e.pricing.input = MODEL_PRICING[LongestKey(e.model)].input
            /\ e.pricing.output = MODEL_PRICING[LongestKey(e.model)].output

\* a versioned name whose longest key comes first among its prefixes was priced
C30_Witness ==
    \E e \in Priced :
        /\ Versioned(e.model)
        /\ Cardinality(KeysPrefixing(e.model)) > 1
        /\ e.pricing.input = MODEL_PRICING[LongestKey(e.model)].input

(***************************************************************************)
(* Finalization                                                            *)
(***************************************************************************)
\* C22: the timeline of the returned result holds, in emission order, every
\* event published during the call, the completion event included
C22_TimelineIsFull ==
    Done => result.timeline = published

\* what the returned result carries: every published event but the last one
C22_TimelineLacksCompletion ==
    Done =>
        /\ Last(published).eventType = "scenario_completed"
        /\ result.timeline = SubSeq(published, 1, Len(published) - 1)

(***************************************************************************)
(* Escalation events                                                       *)
(***************************************************************************)
\* the i-th published event opens a tier after an earlier tier was attempted
StudioEscalationAt(i) ==
    /\ published[i].eventType \in {"edge_routing", "cloud_routing"}
    /\ \E k \in 1..(i - 1) : published[k].tier \in {"mcp", "edge"}

\* the i-th event of routeIncident opens the cloud agent after the NPU agent
DemoEscalationAt(i) ==
    /\ demo.emitted[i] = "cloud_routing"
    /\ \E k \in 1..(i - 1) : demo.emitted[k] = "routing"

\* C23: every escalation from a tier to the next is recorded by an
\* escalation-trigger event between the result event of the escalating tier
\* and the first event of the next tier
C23_EscalationRecorded ==
    /\ \A i \in 1..Len(published) :
          StudioEscalationAt(i) =>
              \E j \in 2..(i - 1) : published[j].eventType = "escalation_triggered"
    /\ \A i \in 1..Len(demo.emitted) :
          DemoEscalationAt(i) =>
              \E j \in 2..(i - 1) : demo.emitted[j] = "escalation_triggered"

\* the one escalation that is recorded: DemoDecisionEngine, NPU answer not accepted
C23_DemoLowConfidenceRecorded ==
    \A i \in 1..Len(demo.emitted) :
        DemoEscalationAt(i) /\ demo.npuResult # Null =>
            demo.emitted[i - 1] = "escalation_triggered"

\* no event of StudioDecisionEngine is an escalation trigger
C23_StudioNeverRecords ==
    \A i \in 1..Len(published) : published[i].eventType # "escalation_triggered"

(***************************************************************************)
(* Totals and persisted metrics                                            *)
(***************************************************************************)
ActiveTiers(res) == {i \in PresentTiers(res) : res.tiers[Tiers[i]].active}

RECURSIVE SumRows(_, _)
SumRows(rows, field) ==
    IF rows = <<>> THEN 0 ELSE Head(rows)[field] + SumRows(Tail(rows), field)

\* C24: the totals of a returned result are sums over the tiers with
\* active = true, so the total latency is the sum of the latencies of the
\* metric rows persisted for the session
C24_TotalsOverActiveTiers ==
    Done =>
        /\ result.total_latency_ms = SumOver(result, ActiveTiers(result), "latency_ms")
        /\ result.total_tokens.input = SumOver(result, ActiveTiers(result), "tokens_input")
        /\ result.total_tokens.output = SumOver(result, ActiveTiers(result), "tokens_output")
        /\ result.total_latency_ms = SumRows(RowsOfSession(sessionId), "latency_ms")

\* the token totals do agree with the persisted rows: a tier that did not
\* execute reports no tokens
C24_TokensOverActiveTiers ==
    Done =>
        /\ result.total_tokens.input = SumRows(RowsOfSession(sessionId), "tokens_input")
        /\ result.total_tokens.output = SumRows(RowsOfSession(sessionId), "tokens_output")

(***************************************************************************)
(* Finalization with failing collaborators                                 *)
(***************************************************************************)
Completions == {i \in 1..Len(published) : published[i].eventType = "scenario_completed"}

\* C25: finalization runs once per call, also when a subscriber or the metrics
\* sink throws during it: one completion event at most, one metric row per
\* tier at most, and no exception reaching the caller
C25_FinalizedOnce ==
    /\ Cardinality(Completions) <= 1
    /\ \A k \in TierFields : Cardinality(RowsOf(sessionId, k)) <= 1
    /\ pc # "thrown"

\* with collaborators that do not throw, finalization does run once
C25_FinalizedOnceNoFaults ==
    /\ Cardinality(Completions) <= 1
    /\ \A k \in TierFields : Cardinality(RowsOf(sessionId, k)) <= 1
    /\ Done => Cardinality(Completions) = 1

\* the completion event was published twice
C25_TwoCompletions == Cardinality(Completions) <= 1

\* a tier's metric row was written twice
C25_TwoRows == \A k \in TierFields : Cardinality(RowsOf(sessionId, k)) <= 1

\* the exception left processScenario
C25_Thrown == pc # "thrown"

(***************************************************************************)
(* Success and the outcome of the final tier                               *)
(***************************************************************************)
FinalOutcome(res) == res.tiers[res.final_tier]

FinalResolves(res) ==
    /\ FinalOutcome(res) # Null
    /\ FinalOutcome(res).active
    /\ FinalOutcome(res).decision = "resolve"

C26_WitnessFailure ==
    /\ Done
    /\ ~result.success
    /\ FinalOutcome(result).active
    /\ FinalOutcome(result).decision = "escalate"

(***************************************************************************)
(* DemoDecisionEngine: completion, stored status, resolution records       *)
(***************************************************************************)

DemoCompletes == {i \in 1..Len(demo.emitted) : demo.emitted[i] = "complete"}

\* C27: a routeIncident call emits 'complete' exactly once on every path, and
\* no event of the incident follows it
C27_CompleteOnceAndLast ==
    /\ Cardinality(DemoCompletes) <= 1
    /\ \A i \in DemoCompletes : i = Len(demo.emitted)
    /\ DemoDone <=> DemoCompletes # {}

\* the NPU agent threw, the cloud agent threw, and the call completed
C27_Witness ==
    /\ DemoDone
    /\ DemoEmitted("npu_error") /\ DemoEmitted("cloud_error")
    /\ Last(demo.emitted) = "complete"

\* the other six endings of a call
C27_WitnessNPUResolves ==
    DemoDone /\ demo.result.agent = "npu" /\ Last(demo.emitted) = "complete"

C27_WitnessUnavailable ==
    DemoDone /\ DemoEmitted("npu_unavailable") /\ DemoEmitted("kb_sync")

C27_WitnessLowConfidence ==
    DemoDone /\ DemoEmitted("escalation_triggered") /\ DemoEmitted("human_escalation")

C27_WitnessDirectCloud ==
    DemoDone /\ ~DemoEmitted("routing") /\ DemoEmitted("kb_sync")

C27_WitnessSpecialist ==
    DemoDone /\ ~DemoEmitted("routing") /\ DemoEmitted("human_escalation")

C27_WitnessNoKey ==
    DemoDone /\ ~demo.apiKey /\ ~DemoEmitted("cloud_processing")

\* the resolution records stored for the incident of this call
DemoResolutions ==
    SelectSeq(demo.resolutions, LAMBDA r : r.incident_id = demo.incidentId)

StoredAsReturned ==
    DemoDone =>
        /\ demo.status = (IF demo.result.success THEN "resolved" ELSE "escalated")
        /\ Len(DemoResolutions) = (IF demo.result.success THEN 1 ELSE 0)
        /\ demo.result.success => DemoResolutions[1].agent = demo.result.agent

ResolvedStays == demo.status = "resolved" => demo'.status = "resolved"

\* C28: when routeIncident returns, the stored status is 'resolved' exactly
\* when the result is a success and 'escalated' otherwise, a resolution record
\* exists exactly for a success and names the result's agent, and a resolved
\* incident is not moved to another status
C28_StoredStatusMatchesResult == [](StoredAsReturned) /\ [][ResolvedStays]_vars

\* an incident escalated by the NPU agent and then resolved by the cloud agent
C28_Witness ==
    /\ DemoDone
    /\ DemoEmitted("escalation_triggered")
    /\ demo.status = "resolved"
    /\ demo.result.success /\ demo.result.agent = "cloud"
    /\ Len(DemoResolutions) = 1

\* an incident routed to the cloud agent directly that was not resolved
C28_WitnessEscalated ==
    /\ DemoDone
    /\ ~DemoEmitted("routing")
    /\ demo.status = "escalated"
    /\ DemoResolutions = <<>>

(***************************************************************************)
(* POST /api/demo/process                                                  *)
(***************************************************************************)
\* C29: the response describes the incident just processed: its
\* classification is 'T1 Incident' exactly when the stored routing decision is
\* 'npu', and its reasoning is the reasoning stored with that decision
C29_ResponseDescribesIncident ==
    dpc = "responded" =>
        /\ demo.response.classification =
              (IF demo.routing.route = "npu" THEN "T1 Incident" ELSE "T2+ Incident")
        /\ demo.response.reasoning = demo.routing.reasoning

\* what the response carries instead, whatever the routing decision was
C29_ResponseWithoutDetails ==
    dpc = "responded" =>
        /\ demo.response.classification = "T2+ Incident"
        /\ demo.response.reasoning = "Processing..."
        /\ demo.response.incidentId # demo.incidentId

====
